---------------------------- MODULE Spec2Model ----------------------------
(***************************************************************************)
(* Design run of one reinforced-concrete beam: Beam record, Flexure, Shear *)
(* and Sideface designers, sequenced by BeamDesign.                        *)
(*                                                                         *)
(* Conventions of the model                                                *)
(*  - every area (required or provided) is held in units of 1/2 mm^2, so   *)
(*    that flex_torsion_area / 2 stays an integer; MM2(a) writes a mm^2.   *)
(*  - the area of a bar is pi * d^2 / 4; a provided area is carried as its *)
(*    integer coefficient c (provided = pi * c / 4 mm^2) and compared with *)
(*    integers through PiFloor, which is exact because pi is irrational.   *)
(*  - utilization is held in tenths of a percent; "-" is NoUtil.           *)
(*  - a label (rebar_text, links_text) is a record: msg holds a sentinel   *)
(*    text, the other fields the numbers an f-string formats.              *)
(*  - depth is a multiple of 5 mm, so that eff_depth = 0.8 * depth and the *)
(*    spacings eff_depth / 4 and eff_depth / 2 are integers.               *)
(***************************************************************************)
EXTENDS Integers, Sequences, FiniteSets, TLC

VARIABLES
    beam,                 \* the Beam dataclass record
    flex_rebar_count,     \* Flexure.flex_rebar_count
    top_flex_rebar,       \* Flexure.top_flex_rebar
    bot_flex_rebar,       \* Flexure.bot_flex_rebar
    residual_rebar,       \* Flexure.residual_rebar
    total_req_shear,      \* Shear.total_req_shear
    shear_spacing,        \* Shear.shear_spacing
    shear_center_spacing, \* Shear.shear_center_spacing
    shear_links_count,    \* Shear.shear_links_count
    shear_links,          \* Shear.shear_links
    required_torsion_reinforcement, \* Sideface.required_torsion_reinforcement
    sideface_clearspace,  \* Sideface.sideface_clearspace
    sideface_rebar,       \* Sideface.sideface_rebar
    pc,                   \* the next method BeamDesign calls
    run,                  \* number of the design run in progress
    input,                \* history: the record as it was constructed
    pre_split,            \* history: the record before flex_torsion_splitting
    searched,             \* history: top/bottom results right after get_flex_rebar
    stirrups,             \* history: the independent result of each stirrup search
    first                 \* history: the results at the end of the first run

vars == <<beam, flex_rebar_count, top_flex_rebar, bot_flex_rebar,
          residual_rebar, total_req_shear, shear_spacing,
          shear_center_spacing, shear_links_count, shear_links,
          required_torsion_reinforcement, sideface_clearspace,
          sideface_rebar, pc, run, input, pre_split, searched, stirrups,
          first>>

-----------------------------------------------------------------------------
(* Arithmetic                                                              *)

MM2(a) == 2 * a

\* the decimals of pi: 3.141592653589793
PiDigits == <<1, 4, 1, 5, 9, 2, 6, 5, 3, 5, 8, 9, 7, 9, 3>>

RECURSIVE PiCarry(_, _)
PiCarry(k, j) ==
    IF j > Len(PiDigits) THEN 0
    ELSE (PiDigits[j] * k + PiCarry(k, j + 1)) \div 10

\* floor(pi * k) for an integer k
PiFloor(k) ==
    IF k >= 0 THEN 3 * k + PiCarry(k, 1)
    ELSE -(3 * (-k) + PiCarry(-k, 1)) - 1

\* round(a / b) for b > 0, ties to even (Python's round)
RoundDiv(a, b) ==
    LET q == a \div b
        r == a % b
    IN  IF 2 * r < b THEN q
        ELSE IF 2 * r > b THEN q + 1
        ELSE IF (q % 2) = 0 THEN q ELSE q + 1

\* <<floor(a * 10^digits / d), remainder>> for d > 0, by long division
RECURSIVE LongDiv(_, _, _)
LongDiv(a, d, digits) ==
    IF digits = 0 THEN <<a \div d, a % d>>
    ELSE LET qr == LongDiv(a, d, digits - 1)
         IN  <<qr[1] * 10 + ((qr[2] * 10) \div d), (qr[2] * 10) % d>>

\* round(a * 10^digits / d) for d > 0, ties to even
ScaledDivRound(a, d, digits) ==
    LET qr == LongDiv(a, d, digits)
    IN  IF 2 * qr[2] < d THEN qr[1]
        ELSE IF 2 * qr[2] > d THEN qr[1] + 1
        ELSE IF (qr[1] % 2) = 0 THEN qr[1] ELSE qr[1] + 1

\* round(num / (pi * k)) for num >= 0 and k > 0: the u with
\* pi * k * (2u - 1) < 2 * num < pi * k * (2u + 1), found near the quotient
\* by floor(100 * pi * k) / 100
PiRound(num, k) ==
    LET guess == ScaledDivRound(num, PiFloor(100 * k), 2)
    IN  CHOOSE u \in (guess - 2)..(guess + 2) :
            /\ PiFloor(k * (2 * u - 1)) < 2 * num
            /\ 2 * num <= PiFloor(k * (2 * u + 1))

\* floor(sqrt(n)) by bisection on lo..hi
RECURSIVE ISqrtIn(_, _, _)
ISqrtIn(n, lo, hi) ==
    IF lo >= hi THEN lo
    ELSE LET mid == (lo + hi + 1) \div 2
         IN  IF mid * mid <= n THEN ISqrtIn(n, mid, hi)
             ELSE ISqrtIn(n, lo, mid - 1)

Max(a, b) == IF a >= b THEN a ELSE b
Min(a, b) == IF a <= b THEN a ELSE b

RECURSIVE SeqSum(_)
SeqSum(s) == IF s = <<>> THEN 0 ELSE Head(s) + SeqSum(Tail(s))

RECURSIVE SeqMax(_)
SeqMax(s) == IF Len(s) = 1 THEN s[1] ELSE Max(Head(s), SeqMax(Tail(s)))

RECURSIVE SeqMin(_)
SeqMin(s) == IF Len(s) = 1 THEN s[1] ELSE Min(Head(s), SeqMin(Tail(s)))

\* sorted(s, reverse=True)
RECURSIVE SortDesc(_)
SortDesc(s) ==
    IF s = <<>> THEN <<>>
    ELSE LET m == SeqMax(s)
             i == CHOOSE j \in 1..Len(s) :
                     s[j] = m /\ \A l \in 1..(j - 1) : s[l] # m
         IN  <<m>> \o SortDesc(SubSeq(s, 1, i - 1) \o SubSeq(s, i + 1, Len(s)))

any(flags) == \E i \in 1..Len(flags) : flags[i]

-----------------------------------------------------------------------------
(* beam.py                                                                 *)

locations == <<"left", "middle", "right">>
Locs == {"left", "middle", "right"}

\* provided_reinforcement(d) = pi * (d / 2) ** 2 = pi * d^2 / 4: the coefficient
provided_reinforcement(diameter) == diameter * diameter

\* a variant of eff_depth that takes a fifth of the depth
fifth_of_depth(depth) == depth \div 5

\* Beam.__post_init__: eff_depth = 0.8 * depth
eff_depth_of(depth) == (4 * depth) \div 5

-----------------------------------------------------------------------------
(* flexure.py                                                              *)

flex_rebar_dia == <<16, 20, 25, 32>>

\* "utilization": "-"
NoUtil == -1

\* "diameter": [float("inf")]
Inf == 1000000

\* the maximum number of layers _find_rebar_configuration tries
MaxLayers == 4

\* a label made of a sentinel text
Sentinel(msg) == [msg |-> msg, count |-> 0, dia |-> <<>>]

\* " + ".join(f"{flex_rebar_count}T{diameter}" for diameter in combination)
FlexText(count, combination) == [msg |-> "", count |-> count, dia |-> combination]

Overstressed == Sentinel("Overstressed")
ExceedsFourLayers == Sentinel("Required rebar exceeds four layers.")

\* Flexure.__init__: one station of top_flex_rebar / bot_flex_rebar
FlexStationInit ==
    [rebar_text |-> Sentinel(""), provided_reinf |-> 0, utilization |-> NoUtil,
     diameter |-> <<>>, solved |-> FALSE]

FlexInit == [l \in Locs |-> FlexStationInit]

\* a variant of get_long_count that keeps width // 100
hundreds_count(width) == IF width \div 100 > 2 THEN width \div 100 ELSE 2

\* get_long_count
get_long_count(width) ==
    IF width \div 100 > 2 THEN (width \div 100) - 1 ELSE 2

\* itertools.product(flex_rebar_dia, repeat=n_layers), in its order
Product(n_layers) ==
    LET b == Len(flex_rebar_dia)
    IN  [i \in 1..(b ^ n_layers) |->
            [j \in 1..n_layers |->
                flex_rebar_dia[(((i - 1) \div (b ^ (n_layers - j))) % b) + 1]]]

\* a variant of get_combinations without the single diameters
product_combinations(n_layers) == Product(n_layers)

\* get_combinations: the single diameters, then the n_layers-fold product
get_combinations(n_layers) ==
    [i \in 1..Len(flex_rebar_dia) |-> <<flex_rebar_dia[i]>>] \o Product(n_layers)

\* the lists get_combinations returns for 2, 3 and 4 layers
Combinations == [n \in 2..MaxLayers |-> get_combinations(n)]

\* sum(provided_reinforcement(d) for d in combination), for each combination
CombinationArea ==
    [n \in 2..MaxLayers |->
        [i \in 1..Len(Combinations[n]) |->
            SeqSum([j \in 1..Len(Combinations[n][i]) |->
                       provided_reinforcement(Combinations[n][i][j])])]]

\* sum(provided_reinforcement(d) * flex_rebar_count for d in combination)
FlexProvided(combination, count) ==
    SeqSum([j \in 1..Len(combination) |->
               provided_reinforcement(combination[j]) * count])

\* a variant of FlexMeets that takes the area of a bar as pi * d^2 / 2
FlexMeetsDoubled(coeff, requirement) == PiFloor(2 * coeff) >= 2 * requirement

\* provided >= requirement, provided = pi * coeff / 4 mm^2
FlexMeets(coeff, requirement) == PiFloor(coeff) >= 2 * requirement

\* a variant of get_best_combination that returns the first combination, in
\* list order, that meets the requirement, whatever its excess
get_first_combination(n_layers, requirement, count) ==
    LET combinations == Combinations[n_layers]
        meeting == {i \in 1..Len(combinations) :
                        PiFloor(CombinationArea[n_layers][i] * count)
                            >= 2 * requirement}
    IN  IF meeting = {} THEN <<>>
        ELSE combinations[CHOOSE i \in meeting : \A k \in meeting : i <= k]

\* get_best_combination over get_combinations(n_layers): the loop keeps a
\* combination only when its excess is strictly less than the least seen so
\* far, so it returns the first combination, in list order, of the least
\* provided area among those that meet the requirement; <<>> is None
get_best_combination(n_layers, requirement, count) ==
    LET combinations == Combinations[n_layers]
        meeting == {i \in 1..Len(combinations) :
                        FlexMeets(CombinationArea[n_layers][i] * count,
                                  requirement)}
        areas == {CombinationArea[n_layers][i] : i \in meeting}
        least == CHOOSE a \in areas : \A x \in areas : a <= x
        firsts == {i \in meeting : CombinationArea[n_layers][i] = least}
    IN  IF meeting = {} THEN <<>>
        ELSE combinations[CHOOSE i \in firsts : \A k \in firsts : i <= k]

\* the passes of _find_rebar_configuration: 2, then 3, then 4 layers
RECURSIVE SearchFrom(_, _, _)
SearchFrom(n_layers, requirement, count) ==
    IF n_layers > MaxLayers THEN <<>>
    ELSE LET best == get_best_combination(n_layers, requirement, count)
         IN  IF best # <<>> THEN best
             ELSE SearchFrom(n_layers + 1, requirement, count)

\* round(requirement / provided * 100, 1), provided = pi * coeff / 4 mm^2
FlexUtilization(requirement, coeff) == PiRound(2000 * requirement, coeff)

\* round(provided) in mm^2, held in 1/2 mm^2
RoundedProvided(coeff) == MM2((PiFloor(coeff) + 2) \div 4)

\* Flexure._find_rebar_configuration
find_rebar_configuration(requirement, count) ==
    LET best_combination == SearchFrom(2, requirement, count)
        sorted_combination == SortDesc(best_combination)
        provided == FlexProvided(sorted_combination, count)
    IN  IF best_combination # <<>>
        THEN [rebar_text |-> FlexText(count, sorted_combination),
              provided_reinf |-> RoundedProvided(provided),
              utilization |-> FlexUtilization(requirement, provided),
              diameter |-> sorted_combination,
              solved |-> TRUE]
        ELSE [rebar_text |-> ExceedsFourLayers,
              provided_reinf |-> 0,
              utilization |-> NoUtil,
              diameter |-> <<Inf>>,
              solved |-> FALSE]

Index(location) == CHOOSE i \in 1..3 : locations[i] = location

\* one face of get_flex_rebar
SolveFace(rebar_dict, requirements, flags, count) ==
    [l \in Locs |->
        IF any(flags)
        THEN [rebar_dict[l] EXCEPT !.rebar_text = Overstressed]
        ELSE find_rebar_configuration(requirements[Index(l)], count)]

\* the test that ends get_flex_rebar
LayerCapHit(top, bot) ==
    \/ \E l \in Locs : top[l].rebar_text = ExceedsFourLayers
    \/ \E l \in Locs : bot[l].rebar_text = ExceedsFourLayers

\* a variant of selected_combination that takes the first solved station
first_solved(rebar_dict) ==
    LET solved == {i \in 1..3 : rebar_dict[locations[i]].solved}
    IN  IF solved = {} THEN "none"
        ELSE locations[CHOOSE i \in solved : \A k \in solved : i <= k]

\* _assign_rebar, first loop: the first solved station of greatest provided area
selected_combination(rebar_dict) ==
    LET solved == {i \in 1..3 : rebar_dict[locations[i]].solved}
        largest == {i \in solved : \A k \in solved :
                       rebar_dict[locations[i]].provided_reinf
                           >= rebar_dict[locations[k]].provided_reinf}
    IN  IF solved = {} THEN "none"
        ELSE locations[CHOOSE i \in largest : \A k \in largest : i <= k]

\* round(req_reinf / provided_reinf * 100, 1)
AssignUtilization(req_reinf, provided_reinf) ==
    RoundDiv(1000 * req_reinf, provided_reinf)

\* _assign_rebar
assign_rebar(rebar_dict, requirements) ==
    LET sel == selected_combination(rebar_dict)
    IN  [l \in Locs |->
            IF rebar_dict[l].solved
            THEN [rebar_dict[l] EXCEPT
                    !.rebar_text = rebar_dict[sel].rebar_text,
                    !.provided_reinf = rebar_dict[sel].provided_reinf,
                    !.diameter = rebar_dict[sel].diameter,
                    !.utilization = AssignUtilization(
                        requirements[Index(l)], rebar_dict[sel].provided_reinf)]
            ELSE rebar_dict[l]]

\* the span below which assess_feasibility makes a face continuous
ContinuitySpan == 6000

\* the depth above which torsion goes to the side faces
DeepBeam == 700

-----------------------------------------------------------------------------
(* shear.py                                                                *)

shear_dia == <<12, 16>>

\* Shear.__init__: shear_spacing and shear_center_spacing
SpacingInit == <<250, 200, 150, 125, 100>>

\* f"{count}L-T{diameter}@{spacing}"
LinksText(count, diameter, spacing) ==
    [msg |-> "", count |-> count, diameter |-> diameter, spacing |-> spacing]

LinksSentinel(msg) == [msg |-> msg, count |-> 0, diameter |-> 0, spacing |-> 0]

LinksOverstressed == LinksSentinel("Overstressed")
CannotSatisfy == LinksSentinel("Cannot satisfy requirement. Please reassess")

\* Shear.__init__: one station of shear_links
LinkStationInit ==
    [links_text |-> LinksSentinel(""), provided_reinf |-> 0,
     utilization |-> NoUtil, diameter |-> 0, spacing |-> 0, solved |-> FALSE]

LinksInit == [l \in Locs |-> LinkStationInit]

\* _assess_transverse_shear_spacing: nominal_shear_capacity >= required_vs, that
\* is 0.33 X >= V - 0.17 X with X = sqrt(fc) * width * eff_depth / 1000
NominalCapacityMet(b) ==
    LET root == ISqrtIn(b.comp_conc_grade * 1000000, 0, 46000)
        wd == b.width * b.eff_depth
    IN  root * (wd \div 1000) + ((root * (wd % 1000)) \div 1000)
            >= 2000 * SeqMax(b.shear_force)

\* a variant of max_transverse_spacing2 without the high-shear branch
max_transverse_spacing2_nominal(b) == 2 * Min(b.eff_depth, 600)

\* min(_assess_transverse_shear_spacing()), doubled
max_transverse_spacing2(b) ==
    IF NominalCapacityMet(b) THEN 2 * Min(b.eff_depth, 600)
    ELSE Min(b.eff_depth, 600)

\* get_shear_links_count: the legs appended to shear_links_count
LegsAppended(b, count) ==
    IF any(b.shear_overstressed) THEN <<>>
    ELSE IF b.width - 80 < max_transverse_spacing2(b)
         THEN IF count = 2 THEN <<2>>
              ELSE IF count = 3 THEN <<2, 3>>
              ELSE <<2, 3, 4>>
         ELSE <<2, 3, 4>>

\* get_total_shear_req: round(a + 2 * b)
TotalShearReq(b) ==
    [i \in 1..3 |-> b.req_shear_reinf[i] + 2 * b.req_torsion_reinf[i]]

\* Python's order on lists: s < t
RECURSIVE LexLess(_, _)
LexLess(s, t) ==
    IF t = <<>> THEN FALSE
    ELSE IF s = <<>> THEN TRUE
    ELSE IF Head(s) # Head(t) THEN Head(s) < Head(t)
    ELSE LexLess(Tail(s), Tail(t))

\* get_min_diameter: min(min(properties["diameter"] for each station))
get_min_diameter(rebar_dict) ==
    LET lists == {rebar_dict[l].diameter : l \in Locs}
        lowest == CHOOSE s \in lists : \A t \in lists : ~LexLess(t, s)
    IN  SeqMin(lowest)

\* smallest_shear_dia = 12
smallest_shear_dia == 12

\* spacing_thresholds, as (lower, upper, value)
spacing_thresholds ==
    <<<<200, 250, 200>>, <<150, 200, 150>>, <<125, 150, 125>>, <<100, 125, 100>>>>

\* the value update_spacing appends for min_spacing
SnapSpacing(min_spacing) ==
    LET hits == {i \in 1..Len(spacing_thresholds) :
                    /\ spacing_thresholds[i][1] <= min_spacing
                    /\ min_spacing < spacing_thresholds[i][2]}
    IN  IF hits = {} THEN min_spacing
        ELSE spacing_thresholds[CHOOSE i \in hits : \A k \in hits : i <= k][3]

\* a set of numbers as a descending list: list(set(..)) then sort(reverse=True)
RECURSIVE DescList(_)
DescList(S) ==
    IF S = {} THEN <<>>
    ELSE LET m == CHOOSE x \in S : \A y \in S : y <= x
         IN  <<m>> \o DescList(S \ {m})

\* a variant of update_spacing that keeps every spacing of the list
update_spacing_unfiltered(spacing_list, min_spacing) ==
    LET value == SnapSpacing(min_spacing)
        appended == Append(spacing_list, value)
    IN  DescList({appended[i] : i \in 1..Len(appended)})

\* update_spacing, then list(set(..)) and sort(reverse=True)
update_spacing(spacing_list, min_spacing) ==
    LET value == SnapSpacing(min_spacing)
        appended == Append(spacing_list, value)
    IN  DescList({appended[i] : i \in {k \in 1..Len(appended) :
                                            appended[k] <= value}})

\* a variant of the condition under which the cap computation is skipped
\* whenever a station ends with a second layer
single_layer_spacing(b, top, bot) ==
    /\ ~(any(b.flex_overstressed) \/ any(b.shear_overstressed))
    /\ \A l \in Locs : top[l].solved /\ Len(top[l].diameter) = 1
    /\ \A l \in Locs : bot[l].solved /\ Len(bot[l].diameter) = 1

\* the condition under which get_min_shear_spacing computes the caps
SpacingComputed(b, top, bot) ==
    /\ ~(any(b.flex_overstressed) \/ any(b.shear_overstressed))
    /\ \A l \in Locs : top[l].solved
    /\ \A l \in Locs : bot[l].solved

\* a variant of min_shear_spacing on the overall depth
min_shear_spacing_overall(b, top, bot) ==
    LET smallest_long_dia == Min(get_min_diameter(top), get_min_diameter(bot))
    IN  SeqMin(<<b.depth \div 4, smallest_long_dia * 8,
                 smallest_shear_dia * 24, 250>>)

min_shear_spacing(b, top, bot) ==
    LET smallest_long_dia == Min(get_min_diameter(top), get_min_diameter(bot))
    IN  SeqMin(<<b.eff_depth \div 4, smallest_long_dia * 8,
                 smallest_shear_dia * 24, 250>>)

min_shear_center_spacing(b) == Min(b.eff_depth \div 2, 250)

\* provided = provided_reinforcement(d) * count * (1000 / spacing): the
\* coefficient of pi / spacing, in 1/2 mm^2
LinksProvided(diameter, count) == 500 * provided_reinforcement(diameter) * count

\* provided >= requirement
LinksMeet(diameter, count, spacing, requirement) ==
    PiFloor(LinksProvided(diameter, count)) >= requirement * spacing

\* itertools.product(shear_dia, shear_links_count, spacings), in its order
LinkCombinations(counts, spacings) ==
    LET nc == Len(counts)
        ns == Len(spacings)
    IN  [i \in 1..(Len(shear_dia) * nc * ns) |->
            [diameter |-> shear_dia[((i - 1) \div (nc * ns)) + 1],
             count |-> counts[(((i - 1) \div ns) % nc) + 1],
             spacing |-> spacings[((i - 1) % ns) + 1]]]

\* round(provided) in mm^2, held in 1/2 mm^2
LinksRounded(c) ==
    MM2((PiFloor(LinksProvided(c.diameter, c.count)) + c.spacing)
            \div (2 * c.spacing))

\* round((requirement / provided) * 100, 1), which is
\* 2 * requirement * spacing / (pi * d^2 * count) in tenths of a percent
LinksUtilization(requirement, c) ==
    PiRound(2 * requirement * c.spacing,
            provided_reinforcement(c.diameter) * c.count)

\* a variant of _find_links_configuration that returns the first combination,
\* in list order, that meets both tests
find_first_links_configuration(requirement, torsion_requirement, counts, spacings) ==
    LET all_combinations == LinkCombinations(counts, spacings)
        ok == {i \in 1..Len(all_combinations) :
                  LET c == all_combinations[i]
                  IN  /\ LinksMeet(c.diameter, c.count, c.spacing, requirement)
                      /\ LinksMeet(c.diameter, 2, c.spacing, torsion_requirement)}
    IN  IF ok = {}
        THEN [links_text |-> CannotSatisfy, provided_reinf |-> 0,
              utilization |-> NoUtil, diameter |-> 0, spacing |-> 0,
              solved |-> FALSE]
        ELSE LET c == all_combinations[CHOOSE i \in ok : \A k \in ok : i <= k]
             IN  [links_text |-> LinksText(c.count, c.diameter, c.spacing),
                  provided_reinf |-> LinksRounded(c),
                  utilization |-> LinksUtilization(requirement, c),
                  diameter |-> c.diameter,
                  spacing |-> c.spacing,
                  solved |-> TRUE]

\* Shear._find_links_configuration: the loop keeps the first combination, in
\* list order, of the least provided area among those that meet both tests
find_links_configuration(requirement, torsion_requirement, counts, spacings) ==
    LET all_combinations == LinkCombinations(counts, spacings)
        ok == {i \in 1..Len(all_combinations) :
                  LET c == all_combinations[i]
                  IN  /\ LinksMeet(c.diameter, c.count, c.spacing, requirement)
                      /\ LinksMeet(c.diameter, 2, c.spacing, torsion_requirement)}
        Less(i, k) ==
            LET c == all_combinations[i]
                e == all_combinations[k]
            IN  provided_reinforcement(c.diameter) * c.count * e.spacing
                    < provided_reinforcement(e.diameter) * e.count * c.spacing
        least == {i \in ok : \A k \in ok : ~Less(k, i)}
    IN  IF ok = {}
        THEN [links_text |-> CannotSatisfy, provided_reinf |-> 0,
              utilization |-> NoUtil, diameter |-> 0, spacing |-> 0,
              solved |-> FALSE]
        ELSE LET c == all_combinations[CHOOSE i \in least :
                                           \A k \in least : i <= k]
             IN  [links_text |-> LinksText(c.count, c.diameter, c.spacing),
                  provided_reinf |-> LinksRounded(c),
                  utilization |-> LinksUtilization(requirement, c),
                  diameter |-> c.diameter,
                  spacing |-> c.spacing,
                  solved |-> TRUE]

\* the side max() returns in _copy_highest_provided: the first of the greatest
max_side(left, right) ==
    IF left.provided_reinf >= right.provided_reinf THEN left ELSE right

\* a variant of _copy_highest_provided that leaves each side its own result
keep_both_sides(links) == links

\* _copy_highest_provided: min_side.update(max_side)
copy_highest_provided(links) ==
    LET m == max_side(links["left"], links["right"])
    IN  [links EXCEPT !["left"] = m, !["right"] = m]

\* the non-overstressed branch of get_shear_links
solve_links(links, total, torsion, counts, leg_spacings, center_spacings) ==
    LET left == find_links_configuration(total[1], torsion[1], counts, leg_spacings)
        middle == find_links_configuration(total[2], torsion[2], counts,
                                           center_spacings)
        right == find_links_configuration(total[3], torsion[3], counts, leg_spacings)
        after_left == copy_highest_provided([links EXCEPT !["left"] = left])
        after_middle == [after_left EXCEPT !["middle"] = middle]
    IN  copy_highest_provided([after_middle EXCEPT !["right"] = right])

-----------------------------------------------------------------------------
(* sideface.py                                                             *)

sideface_dia == <<16, 20, 25>>
sideface_spacing == <<250, 200, 150>>

\* f"T{diameter}@{spacing}EF"
SidefaceText(diameter, spacing) ==
    [msg |-> "", diameter |-> diameter, spacing |-> spacing]

SidefaceSentinel(msg) == [msg |-> msg, diameter |-> 0, spacing |-> 0]

\* Sideface.__init__: sideface_rebar
SidefaceInit ==
    [rebar_text |-> SidefaceSentinel("-"), provided_reinf |-> 0,
     diameter |-> 0, spacing |-> 0, solved |-> FALSE]

\* a variant of the guard that leaves the depth out
sideface_any_depth(b) == ~(any(b.flex_overstressed) \/ any(b.shear_overstressed))

\* the condition that guards the three methods of Sideface
SidefaceActive(b) ==
    /\ ~(any(b.flex_overstressed) \/ any(b.shear_overstressed))
    /\ b.depth > DeepBeam

\* grab_dia, then max: the greatest sum of a station's diameters, or 0
max_grab_dia(rebar_dict) ==
    SeqMax(<<0>> \o [i \in 1..3 |-> SeqSum(rebar_dict[locations[i]].diameter)])

\* a variant of get_sideface_clear_space that takes the stirrup diameter once
clear_space_one_link(b, links, top, bot) ==
    b.eff_depth
        - SeqMax([i \in 1..3 |-> links[locations[i]].diameter])
        - max_grab_dia(top)
        - max_grab_dia(bot)

\* get_sideface_clear_space
clear_space(b, links, top, bot) ==
    b.eff_depth
        - 2 * SeqMax([i \in 1..3 |-> links[locations[i]].diameter])
        - max_grab_dia(top)
        - max_grab_dia(bot)

\* provided = provided_reinforcement(d) * 2 * (clearspace / spacing): the
\* coefficient of pi / spacing, in 1/2 mm^2
SidefaceProvided(diameter, clearspace) ==
    provided_reinforcement(diameter) * clearspace

\* itertools.product(sideface_dia, sideface_spacing), in its order
SidefaceCombinations ==
    LET ns == Len(sideface_spacing)
    IN  [i \in 1..(Len(sideface_dia) * ns) |->
            [diameter |-> sideface_dia[((i - 1) \div ns) + 1],
             spacing |-> sideface_spacing[((i - 1) % ns) + 1]]]

\* a variant of Sideface._find_rebar_configuration that returns the first
\* combination, in list order, with provided >= requirement
sideface_first_rebar_configuration(requirement, clearspace) ==
    LET ok == {i \in 1..Len(SidefaceCombinations) :
                  LET c == SidefaceCombinations[i]
                  IN  PiFloor(SidefaceProvided(c.diameter, clearspace))
                          >= requirement * c.spacing}
    IN  IF ok = {}
        THEN [rebar_text |->
                  SidefaceSentinel("Cannot satisfy requirement. Please reassess."),
              provided_reinf |-> 0, diameter |-> 0, spacing |-> 0,
              solved |-> FALSE]
        ELSE LET c == SidefaceCombinations[CHOOSE i \in ok : \A k \in ok : i <= k]
             IN  [rebar_text |-> SidefaceText(c.diameter, c.spacing),
                  provided_reinf |->
                      MM2((PiFloor(SidefaceProvided(c.diameter, clearspace))
                               + c.spacing) \div (2 * c.spacing)),
                  diameter |-> c.diameter,
                  spacing |-> c.spacing,
                  solved |-> TRUE]

\* Sideface._find_rebar_configuration: the first combination, in list order,
\* of the least provided area among those with provided >= requirement
sideface_find_rebar_configuration(requirement, clearspace) ==
    LET ok == {i \in 1..Len(SidefaceCombinations) :
                  LET c == SidefaceCombinations[i]
                  IN  PiFloor(SidefaceProvided(c.diameter, clearspace))
                          >= requirement * c.spacing}
        Less(i, k) ==
            LET c == SidefaceCombinations[i]
                e == SidefaceCombinations[k]
            IN  SidefaceProvided(c.diameter, clearspace) * e.spacing
                    < SidefaceProvided(e.diameter, clearspace) * c.spacing
        least == {i \in ok : \A k \in ok : ~Less(k, i)}
    IN  IF ok = {}
        THEN [rebar_text |->
                  SidefaceSentinel("Cannot satisfy requirement. Please reassess."),
              provided_reinf |-> 0, diameter |-> 0, spacing |-> 0,
              solved |-> FALSE]
        ELSE LET c == SidefaceCombinations[CHOOSE i \in least :
                                               \A k \in least : i <= k]
             IN  [rebar_text |-> SidefaceText(c.diameter, c.spacing),
                  provided_reinf |->
                      MM2((PiFloor(SidefaceProvided(c.diameter, clearspace))
                               + c.spacing) \div (2 * c.spacing)),
                  diameter |-> c.diameter,
                  spacing |-> c.spacing,
                  solved |-> TRUE]

-----------------------------------------------------------------------------
(* The input records                                                       *)

\* the number of design runs made on one record
MaxRuns == 2

Triple(a, b, c) == <<MM2(a), MM2(b), MM2(c)>>

Widths == {200, 400, 700}
Depths == {600, 800, 1550}
Spans == {5890, 7000}
Flags == {<<FALSE, FALSE>>, <<TRUE, FALSE>>, <<FALSE, TRUE>>, <<TRUE, TRUE>>}

\* flexural demands of a record: top, bottom and torsion-longitudinal areas
FlexCases ==
    {[top |-> Triple(365, 173, 195), bot |-> Triple(406, 200, 303),
      torsion |-> Triple(1343, 1343, 1343)],
     [top |-> Triple(14712, 6140, 3638), bot |-> Triple(4584, 5415, 10007),
      torsion |-> Triple(6096, 6096, 6096)],
     [top |-> Triple(7000, 1979, 703), bot |-> Triple(406, 200, 303),
      torsion |-> Triple(2500, 2500, 2500)],
     [top |-> Triple(0, 1979, 2100), bot |-> Triple(1900, 1000, 640),
      torsion |-> Triple(0, 0, 0)]}

\* shear demands of a record: forces, shear and torsion-transverse areas
ShearCases ==
    {[force |-> <<3195, 3169, 1997>>, shear |-> Triple(5026, 4971, 2434),
      torsion |-> Triple(800, 437, 458)],
     [force |-> <<100, 80, 90>>, shear |-> Triple(9000, 500, 1000),
      torsion |-> Triple(0, 0, 0)],
     [force |-> <<100, 80, 90>>, shear |-> Triple(500, 9000, 400),
      torsion |-> Triple(800, 437, 458)],
     [force |-> <<380, 350, 390>>, shear |-> Triple(300, 200, 350),
      torsion |-> Triple(100, 100, 900)]}

\* the number of steps of the demand grid
MaxDemandIndex == 45

\* the demand grid, in mm^2: from 0 to beyond what four layers provide
GridDemand(i) == 487 * i

\* beam.Beam(...), with __post_init__
Beam(width, depth, span, flex, top, bot, tor, force, shear, req_s, req_t) ==
    [width |-> width, depth |-> depth, span |-> span, comp_conc_grade |-> 45,
     flex_overstressed |-> flex,
     req_top_flex_reinf |-> top,
     req_bot_flex_reinf |-> bot,
     req_torsion_flex_reinf |-> tor,
     shear_force |-> force,
     shear_overstressed |-> shear,
     req_shear_reinf |-> req_s,
     req_torsion_reinf |-> req_t,
     eff_depth |-> eff_depth_of(depth)]

\* records without an overstress flag: every geometry with every demand
PlainBeams ==
    {Beam(w, d, s, <<FALSE, FALSE>>, f.top, f.bot, f.torsion, sh.force,
          <<FALSE, FALSE>>, sh.shear, sh.torsion) :
        w \in Widths, d \in Depths, s \in Spans, f \in FlexCases,
        sh \in ShearCases}

\* records with overstress flags
FlaggedBeams ==
    {Beam(400, d, s, fl, Triple(365, 173, 195), Triple(406, 200, 303),
          Triple(1343, 1343, 1343), <<100, 80, 90>>, sf,
          Triple(500, 400, 300), Triple(100, 100, 100)) :
        d \in {600, 800}, s \in Spans, fl \in Flags, sf \in Flags}

\* records whose top demand runs over the grid
GridBeams ==
    {Beam(w, 800, 7000, <<FALSE, FALSE>>,
          Triple(GridDemand(i), GridDemand(i) \div 3, GridDemand(i) \div 2),
          Triple(406, 200, 303), Triple(1343, 1343, 1343), <<100, 80, 90>>,
          <<FALSE, FALSE>>, Triple(500, 400, 300), Triple(100, 100, 100)) :
        w \in Widths, i \in 0..MaxDemandIndex}

\* the record of test_roof_B46_sideface
RoofB46 ==
    Beam(400, 800, 2650, <<FALSE, FALSE>>, Triple(365, 173, 195),
         Triple(207, 247, 146), Triple(2500, 2500, 2500), <<30, 31, 36>>,
         <<FALSE, FALSE>>, Triple(105, 107, 107), Triple(792, 792, 761))

\* deep records beyond the continuity span whose stations end with different
\* diameters: 25 + 16 at one station, 20 at the others
MixedBeams ==
    {Beam(400, d, 7000, <<FALSE, FALSE>>, Triple(1979, 703, 703),
          Triple(703, 703, 703), Triple(0, 0, 0), sh.force, <<FALSE, FALSE>>,
          sh.shear, sh.torsion) :
        d \in {800, 1550}, sh \in ShearCases}

\* shallow records: eff_depth / 4 is below the spacing ladder
ShallowBeams ==
    {Beam(w, 400, 7000, <<FALSE, FALSE>>, Triple(365, 173, 195),
          Triple(406, 200, 303), Triple(1343, 1343, 1343), sh.force,
          <<FALSE, FALSE>>, sh.shear, sh.torsion) :
        w \in {200, 300, 400}, sh \in ShearCases}

\* records that keep the default depth of the dataclass, 0
DefaultDepthBeams ==
    {Beam(w, 0, 7000, <<FALSE, FALSE>>, Triple(365, 173, 195),
          Triple(406, 200, 303), Triple(0, 0, 0), <<100, 80, 90>>, sf,
          Triple(500, 400, 300), Triple(100, 100, 100)) :
        w \in {0, 400}, sf \in Flags}

\* records just deeper than 700 that need the largest bars: four layers of 32
\* on both faces and stirrups of 16
LargestBarsBeams ==
    {Beam(200, 705, 7000, <<FALSE, FALSE>>, Triple(6400, 6400, 6400),
          Triple(6400, 6400, 6400), Triple(t, t, t), <<100, 80, 90>>,
          <<FALSE, FALSE>>, Triple(3000, 3000, 3000), Triple(0, 0, 0)) :
        t \in {0, 2500}}

InputBeams ==
    PlainBeams \cup FlaggedBeams \cup GridBeams \cup {RoofB46}
        \cup MixedBeams \cup ShallowBeams \cup DefaultDepthBeams
        \cup LargestBarsBeams

\* the results a schedule reports
Results ==
    [top |-> top_flex_rebar, bot |-> bot_flex_rebar, links |-> shear_links,
     sideface |-> sideface_rebar]

\* BeamDesign.__init__: the three designers as constructed
Constructed ==
    /\ flex_rebar_count = 0
    /\ top_flex_rebar = FlexInit
    /\ bot_flex_rebar = FlexInit
    /\ residual_rebar = [l \in Locs |-> 0]
    /\ total_req_shear = <<0, 0, 0>>
    /\ shear_spacing = SpacingInit
    /\ shear_center_spacing = SpacingInit
    /\ shear_links_count = <<>>
    /\ shear_links = LinksInit
    /\ required_torsion_reinforcement = [l \in Locs |-> 0]
    /\ sideface_clearspace = 0
    /\ sideface_rebar = SidefaceInit

Init ==
    /\ beam \in InputBeams
    /\ Constructed
    /\ pc = "get_long_count"
    /\ run = 1
    /\ input = beam
    /\ pre_split = beam
    /\ searched = [top |-> FlexInit, bot |-> FlexInit]
    /\ stirrups = LinksInit
    /\ first = [top |-> FlexInit, bot |-> FlexInit, links |-> LinksInit,
                sideface |-> SidefaceInit]

-----------------------------------------------------------------------------
(* BeamDesign.calculate_flexural_design                                    *)

flexure_vars == <<flex_rebar_count, top_flex_rebar, bot_flex_rebar, residual_rebar>>
shear_vars == <<total_req_shear, shear_spacing, shear_center_spacing,
                shear_links_count, shear_links>>
sideface_vars == <<required_torsion_reinforcement, sideface_clearspace,
                   sideface_rebar>>
history_vars == <<input, pre_split, searched, stirrups, first>>

GetLongCount ==
    /\ pc = "get_long_count"
    /\ flex_rebar_count' = get_long_count(beam.width)
    /\ pc' = "flex_torsion_splitting"
    /\ UNCHANGED <<beam, top_flex_rebar, bot_flex_rebar, residual_rebar,
                   shear_vars, sideface_vars, run, history_vars>>

\* a variant of flex_torsion_splitting that adds the whole torsion demand to
\* each face
add_whole_torsion(b) ==
    IF ~any(b.flex_overstressed) /\ b.depth <= DeepBeam
    THEN [b EXCEPT
             !.req_top_flex_reinf =
                 [i \in 1..3 |-> b.req_torsion_flex_reinf[i]
                                    + b.req_top_flex_reinf[i]],
             !.req_bot_flex_reinf =
                 [i \in 1..3 |-> b.req_torsion_flex_reinf[i]
                                    + b.req_bot_flex_reinf[i]],
             !.req_torsion_flex_reinf = <<0, 0, 0>>]
    ELSE b

\* a variant of flex_torsion_splitting that splits at every depth
split_any_depth(b) ==
    IF ~any(b.flex_overstressed)
    THEN [b EXCEPT
             !.req_top_flex_reinf =
                 [i \in 1..3 |-> (b.req_torsion_flex_reinf[i] \div 2)
                                    + b.req_top_flex_reinf[i]],
             !.req_bot_flex_reinf =
                 [i \in 1..3 |-> (b.req_torsion_flex_reinf[i] \div 2)
                                    + b.req_bot_flex_reinf[i]],
             !.req_torsion_flex_reinf = <<0, 0, 0>>]
    ELSE b

\* flex_torsion_splitting, on the record
flex_torsion_splitting(b) ==
    IF ~any(b.flex_overstressed) /\ b.depth <= DeepBeam
    THEN LET divided_torsion_list ==
                 [i \in 1..3 |-> b.req_torsion_flex_reinf[i] \div 2]
         IN  [b EXCEPT
                 !.req_top_flex_reinf =
                     [i \in 1..3 |-> divided_torsion_list[i]
                                        + b.req_top_flex_reinf[i]],
                 !.req_bot_flex_reinf =
                     [i \in 1..3 |-> divided_torsion_list[i]
                                        + b.req_bot_flex_reinf[i]],
                 !.req_torsion_flex_reinf = <<0, 0, 0>>]
    ELSE b

FlexTorsionSplitting ==
    /\ pc = "flex_torsion_splitting"
    /\ beam' = flex_torsion_splitting(beam)
    /\ pre_split' = beam
    /\ pc' = "get_flex_rebar"
    /\ UNCHANGED <<flexure_vars, shear_vars, sideface_vars, run, input,
                   searched, stirrups, first>>

\* a variant of flag_layer_cap that leaves the flags as they are
keep_flags(b, top, bot) == b

\* the end of get_flex_rebar: flex_overstressed.append(True)
flag_layer_cap(b, top, bot) ==
    IF LayerCapHit(top, bot)
    THEN [b EXCEPT !.flex_overstressed = Append(b.flex_overstressed, TRUE)]
    ELSE b

GetFlexRebar ==
    /\ pc = "get_flex_rebar"
    /\ top_flex_rebar' = SolveFace(top_flex_rebar, beam.req_top_flex_reinf,
                                   beam.flex_overstressed, flex_rebar_count)
    /\ bot_flex_rebar' = SolveFace(bot_flex_rebar, beam.req_bot_flex_reinf,
                                   beam.flex_overstressed, flex_rebar_count)
    /\ beam' = flag_layer_cap(beam, top_flex_rebar', bot_flex_rebar')
    /\ searched' = [top |-> top_flex_rebar', bot |-> bot_flex_rebar']
    /\ pc' = "assess_feasibility"
    /\ UNCHANGED <<flex_rebar_count, residual_rebar, shear_vars, sideface_vars,
                   run, input, pre_split, stirrups, first>>

\* assess_feasibility, one face: flag is flex_overstressed[1] for the top
\* face and flex_overstressed[0] for the bottom face
assess_face(rebar_dict, requirements, flag, span) ==
    IF ~flag /\ span <= ContinuitySpan
    THEN assign_rebar(rebar_dict, requirements)
    ELSE rebar_dict

AssessFeasibility ==
    /\ pc = "assess_feasibility"
    /\ top_flex_rebar' = assess_face(top_flex_rebar, beam.req_top_flex_reinf,
                                     beam.flex_overstressed[2], beam.span)
    /\ bot_flex_rebar' = assess_face(bot_flex_rebar, beam.req_bot_flex_reinf,
                                     beam.flex_overstressed[1], beam.span)
    /\ pc' = "get_residual_rebar"
    /\ UNCHANGED <<beam, flex_rebar_count, residual_rebar, shear_vars,
                   sideface_vars, run, history_vars>>

\* a variant of get_residual_rebar that counts the top face only
top_residual_rebar(b, top, bot, residual) ==
    IF b.depth > DeepBeam /\ ~any(b.flex_overstressed)
    THEN [l \in Locs |->
            IF top[l].solved
            THEN top[l].provided_reinf - b.req_top_flex_reinf[Index(l)]
            ELSE 0]
    ELSE residual

\* get_residual_rebar
get_residual_rebar(b, top, bot, residual) ==
    IF b.depth > DeepBeam /\ ~any(b.flex_overstressed)
    THEN [l \in Locs |->
            (IF top[l].solved
             THEN top[l].provided_reinf - b.req_top_flex_reinf[Index(l)]
             ELSE 0)
            + (IF bot[l].solved
               THEN bot[l].provided_reinf - b.req_bot_flex_reinf[Index(l)]
               ELSE 0)]
    ELSE residual

GetResidualRebar ==
    /\ pc = "get_residual_rebar"
    /\ residual_rebar' = get_residual_rebar(beam, top_flex_rebar,
                                            bot_flex_rebar, residual_rebar)
    /\ pc' = "get_shear_links_count"
    /\ UNCHANGED <<beam, flex_rebar_count, top_flex_rebar, bot_flex_rebar,
                   shear_vars, sideface_vars, run, history_vars>>

-----------------------------------------------------------------------------
(* BeamDesign.calculate_shear_design                                       *)

\* the beam-level test of get_shear_links, get_min_shear_spacing and Sideface
is_overstressed(b) == any(b.flex_overstressed) \/ any(b.shear_overstressed)

\* a variant of mark_overstressed that leaves the labels as they are
keep_links(links) == links

\* every label of shear_links set to "Overstressed", the other keys kept
mark_overstressed(links) ==
    [l \in Locs |-> [links[l] EXCEPT !.links_text = LinksOverstressed]]

\* req_legs = (width - 80) / max_transverse_spacing divides by zero
LegsDivisionByZero(b) ==
    ~any(b.shear_overstressed) /\ max_transverse_spacing2(b) = 0

\* get_shear_links_count; a ZeroDivisionError leaves the design run, which
\* nothing catches
GetShearLinksCount ==
    /\ pc = "get_shear_links_count"
    /\ IF LegsDivisionByZero(beam)
       THEN /\ pc' = "raised"
            /\ UNCHANGED shear_links_count
       ELSE /\ shear_links_count' =
                   shear_links_count \o LegsAppended(beam, flex_rebar_count)
            /\ pc' = "get_total_shear_req"
    /\ UNCHANGED <<beam, flexure_vars, total_req_shear, shear_spacing,
                   shear_center_spacing, shear_links, sideface_vars, run,
                   history_vars>>

GetTotalShearReq ==
    /\ pc = "get_total_shear_req"
    /\ IF any(beam.shear_overstressed)
       THEN /\ shear_links' = mark_overstressed(shear_links)
            /\ UNCHANGED total_req_shear
       ELSE /\ total_req_shear' = TotalShearReq(beam)
            /\ UNCHANGED shear_links
    /\ pc' = "get_min_shear_spacing"
    /\ UNCHANGED <<beam, flexure_vars, shear_spacing, shear_center_spacing,
                   shear_links_count, sideface_vars, run, history_vars>>

GetMinShearSpacing ==
    /\ pc = "get_min_shear_spacing"
    /\ IF SpacingComputed(beam, top_flex_rebar, bot_flex_rebar)
       THEN /\ shear_spacing' =
                   update_spacing(shear_spacing,
                       min_shear_spacing(beam, top_flex_rebar, bot_flex_rebar))
            /\ shear_center_spacing' =
                   update_spacing(shear_center_spacing,
                                  min_shear_center_spacing(beam))
       ELSE UNCHANGED <<shear_spacing, shear_center_spacing>>
    /\ pc' = "get_shear_links"
    /\ UNCHANGED <<beam, flexure_vars, total_req_shear, shear_links_count,
                   shear_links, sideface_vars, run, history_vars>>

\* the three independent searches of get_shear_links
independent_links(b, total, counts, leg_spacings, center_spacings) ==
    [l \in Locs |->
        find_links_configuration(total[Index(l)], b.req_torsion_reinf[Index(l)],
            counts, IF l = "middle" THEN center_spacings ELSE leg_spacings)]

GetShearLinks ==
    /\ pc = "get_shear_links"
    /\ IF ~is_overstressed(beam)
       THEN /\ shear_links' = solve_links(shear_links, total_req_shear,
                                  beam.req_torsion_reinf, shear_links_count,
                                  shear_spacing, shear_center_spacing)
            /\ stirrups' = independent_links(beam, total_req_shear,
                               shear_links_count, shear_spacing,
                               shear_center_spacing)
       ELSE /\ shear_links' = mark_overstressed(shear_links)
            /\ UNCHANGED stirrups
    /\ pc' = "get_required_reinforcement"
    /\ UNCHANGED <<beam, flexure_vars, total_req_shear, shear_spacing,
                   shear_center_spacing, shear_links_count, sideface_vars, run,
                   input, pre_split, searched, first>>

-----------------------------------------------------------------------------
(* BeamDesign.calculate_sideface_design                                    *)

\* a variant of get_required_reinforcement that keeps the whole torsion demand
whole_torsion_demand(b, residual, required) ==
    IF SidefaceActive(b)
    THEN [l \in Locs |-> b.req_torsion_flex_reinf[Index(l)]]
    ELSE required

\* get_required_reinforcement
get_required_reinforcement(b, residual, required) ==
    IF SidefaceActive(b)
    THEN [l \in Locs |-> b.req_torsion_flex_reinf[Index(l)] - residual[l]]
    ELSE required

GetRequiredReinforcement ==
    /\ pc = "get_required_reinforcement"
    /\ required_torsion_reinforcement' =
           get_required_reinforcement(beam, residual_rebar,
                                      required_torsion_reinforcement)
    /\ pc' = "get_sideface_clear_space"
    /\ UNCHANGED <<beam, flexure_vars, shear_vars, sideface_clearspace,
                   sideface_rebar, run, history_vars>>

GetSidefaceClearSpace ==
    /\ pc = "get_sideface_clear_space"
    /\ sideface_clearspace' =
           IF SidefaceActive(beam)
           THEN clear_space(beam, shear_links, top_flex_rebar, bot_flex_rebar)
           ELSE sideface_clearspace
    /\ pc' = "get_sideface_rebar"
    /\ UNCHANGED <<beam, flexure_vars, shear_vars,
                   required_torsion_reinforcement, sideface_rebar, run,
                   history_vars>>

GetSidefaceRebar ==
    /\ pc = "get_sideface_rebar"
    /\ sideface_rebar' =
           IF SidefaceActive(beam)
           THEN sideface_find_rebar_configuration(
                    SeqMax([i \in 1..3 |->
                               required_torsion_reinforcement[locations[i]]]),
                    sideface_clearspace)
           ELSE sideface_rebar
    /\ pc' = "done"
    /\ UNCHANGED <<beam, flexure_vars, shear_vars,
                   required_torsion_reinforcement, sideface_clearspace, run,
                   history_vars>>

-----------------------------------------------------------------------------
(* A further design run on the same record                                 *)

\* the three calculate_* methods called again on the same BeamDesign
RunAgain ==
    /\ pc = "done"
    /\ run < MaxRuns
    /\ run' = run + 1
    /\ first' = IF run = 1 THEN Results ELSE first
    /\ pc' = "get_long_count"
    /\ UNCHANGED <<beam, flexure_vars, shear_vars, sideface_vars, input,
                   pre_split, searched, stirrups>>

\* BeamDesign(beam) constructed again on the same record, then run
DesignAgain ==
    /\ pc = "done"
    /\ run < MaxRuns
    /\ run' = run + 1
    /\ first' = IF run = 1 THEN Results ELSE first
    /\ pc' = "get_long_count"
    /\ flex_rebar_count' = 0
    /\ top_flex_rebar' = FlexInit
    /\ bot_flex_rebar' = FlexInit
    /\ residual_rebar' = [l \in Locs |-> 0]
    /\ total_req_shear' = <<0, 0, 0>>
    /\ shear_spacing' = SpacingInit
    /\ shear_center_spacing' = SpacingInit
    /\ shear_links_count' = <<>>
    /\ shear_links' = LinksInit
    /\ required_torsion_reinforcement' = [l \in Locs |-> 0]
    /\ sideface_clearspace' = 0
    /\ sideface_rebar' = SidefaceInit
    /\ stirrups' = LinksInit
    /\ UNCHANGED <<beam, input, pre_split, searched>>

Next ==
    \/ GetLongCount
    \/ FlexTorsionSplitting
    \/ GetFlexRebar
    \/ AssessFeasibility
    \/ GetResidualRebar
    \/ GetShearLinksCount
    \/ GetTotalShearReq
    \/ GetMinShearSpacing
    \/ GetShearLinks
    \/ GetRequiredReinforcement
    \/ GetSidefaceClearSpace
    \/ GetSidefaceRebar
    \/ RunAgain
    \/ DesignAgain

Spec == Init /\ [][Next]_vars

-----------------------------------------------------------------------------
(* Sideface._find_rebar_configuration called on its own                    *)

\* the clear spaces of the Sideface object, in mm: negative, zero and positive
ClearSpaces == {5 * i : i \in -20..20}

\* the requirement argument, in 1/2 mm^2
SidefaceRequirements ==
    {MM2(0 - 2000), MM2(0 - 100), MM2(0 - 1), MM2(0), MM2(100), MM2(2000)}

\* a Sideface object whose sideface_clearspace holds any of ClearSpaces
FindInit ==
    /\ beam = RoofB46
    /\ flex_rebar_count = 0
    /\ top_flex_rebar = FlexInit
    /\ bot_flex_rebar = FlexInit
    /\ residual_rebar = [l \in Locs |-> 0]
    /\ total_req_shear = <<0, 0, 0>>
    /\ shear_spacing = SpacingInit
    /\ shear_center_spacing = SpacingInit
    /\ shear_links_count = <<>>
    /\ shear_links = LinksInit
    /\ required_torsion_reinforcement = [l \in Locs |-> 0]
    /\ sideface_clearspace \in ClearSpaces
    /\ sideface_rebar = SidefaceInit
    /\ pc = "find_rebar_configuration"
    /\ run = 1
    /\ input = beam
    /\ pre_split = beam
    /\ searched = [top |-> FlexInit, bot |-> FlexInit]
    /\ stirrups = LinksInit
    /\ first = [top |-> FlexInit, bot |-> FlexInit, links |-> LinksInit,
                sideface |-> SidefaceInit]

\* result = self._find_rebar_configuration(requirement), kept in sideface_rebar
FindRebarConfiguration ==
    /\ pc = "find_rebar_configuration"
    /\ \E requirement \in SidefaceRequirements :
           sideface_rebar' =
               sideface_find_rebar_configuration(requirement, sideface_clearspace)
    /\ pc' = "returned"
    /\ UNCHANGED <<beam, flexure_vars, shear_vars,
                   required_torsion_reinforcement, sideface_clearspace, run,
                   history_vars>>

FindSpec == FindInit /\ [][FindRebarConfiguration]_vars

-----------------------------------------------------------------------------
(* The positions of a design run                                           *)

\* get_flex_rebar of the run in progress has returned: searched is its result
AfterSearch ==
    pc \notin {"get_long_count", "flex_torsion_splitting", "get_flex_rebar"}

\* calculate_flexural_design of the run in progress has returned
AfterFlexure ==
    pc \in {"get_shear_links_count", "get_total_shear_req",
            "get_min_shear_spacing", "get_shear_links",
            "get_required_reinforcement", "get_sideface_clear_space",
            "get_sideface_rebar", "done"}

\* get_flex_rebar, assess_feasibility or get_residual_rebar, the last step of
\* calculate_flexural_design, has just returned
FlexureSettled ==
    pc \in {"assess_feasibility", "get_residual_rebar", "get_shear_links_count"}

\* calculate_shear_design of the run in progress has returned
AfterShear ==
    pc \in {"get_required_reinforcement", "get_sideface_clear_space",
            "get_sideface_rebar", "done"}

\* the record had no flexure-overstress flag when the run in progress split it
NoFlexFlagOnEntry == ~any(pre_split.flex_overstressed)

Faces == {"top", "bot"}

\* the station of a face as it is now, and its requirement on the record
Station(face, l) == IF face = "top" THEN top_flex_rebar[l] ELSE bot_flex_rebar[l]

Required(face, l) ==
    IF face = "top" THEN beam.req_top_flex_reinf[Index(l)]
    ELSE beam.req_bot_flex_reinf[Index(l)]

Catalogue == {16, 20, 25, 32}

\* the sums of d^2 that k layers of the catalogue can make, k = 1..4
LayerAreas ==
    [k \in 1..4 |->
        {SeqSum([j \in 1..k |-> t[j] * t[j]]) : t \in [1..k -> Catalogue]}]

\* n lines of bars whose d^2 sum to a provide at least A (A in 1/2 mm^2)
Suffices(a, n, A) == PiFloor(a * n) >= 2 * A

Least(S) == CHOOSE a \in S : \A x \in S : a <= x

\* the sum of d^2 over the diameters of a solved result
ChosenArea(result) ==
    SeqSum([j \in 1..Len(result.diameter) |->
               result.diameter[j] * result.diameter[j]])

-----------------------------------------------------------------------------
(* C1                                                                      *)

LayerFeasible(k, n, A) == {a \in LayerAreas[k] : Suffices(a, n, A)}

PassFeasible(p, n, A) ==
    {a \in LayerAreas[1] \cup LayerAreas[p] : Suffices(a, n, A)}

SmallestLayerChoice(result, n, A) ==
    LET ks == {k \in 1..4 : LayerFeasible(k, n, A) # {}}
    IN  ks # {} =>
            /\ result.solved
            /\ Len(result.diameter) = Least(ks)
            /\ ChosenArea(result) = Least(LayerFeasible(Least(ks), n, A))

FirstPassChoice(result, n, A) ==
    LET ps == {p \in 2..4 : PassFeasible(p, n, A) # {}}
    IN  IF ps = {} THEN ~result.solved
        ELSE /\ result.solved
             /\ Len(result.diameter) \in {1, Least(ps)}
             /\ \A j \in 1..Len(result.diameter) :
                    result.diameter[j] \in Catalogue
             /\ ChosenArea(result) = Least(PassFeasible(Least(ps), n, A))

\* C1 as stated: for every required area A and bar-line count n, the result of
\* _find_rebar_configuration has the smallest layer count k in 1..4 at which
\* some combination provides at least A, and the least provided area among the
\* k-layer combinations that provide at least A.
C1_SmallestLayerCount ==
    (pc = "assess_feasibility" /\ NoFlexFlagOnEntry) =>
        \A face \in Faces : \A l \in Locs :
            SmallestLayerChoice(searched[face][l], flex_rebar_count,
                                Required(face, l))

\* C1 as the code has it: the search runs in three passes, one layer together
\* with two layers, then one with three, then one with four; the result comes
\* from the first pass in which some combination provides at least A and has
\* the least provided area among the combinations of that pass that provide at
\* least A; it is unsolved exactly when no pass has such a combination.
C1_FirstPassMinimum ==
    (pc = "assess_feasibility" /\ NoFlexFlagOnEntry) =>
        \A face \in Faces : \A l \in Locs :
            FirstPassChoice(searched[face][l], flex_rebar_count,
                            Required(face, l))

\* a record whose search ends with two layers at a station where one layer of
\* a larger diameter would do, and with three layers at another
C1_PassesReached ==
    /\ pc = "assess_feasibility"
    /\ NoFlexFlagOnEntry
    /\ \E face \in Faces : \E l \in Locs :
           /\ searched[face][l].solved
           /\ Len(searched[face][l].diameter) = 2
           /\ LayerFeasible(1, flex_rebar_count, Required(face, l)) # {}
    /\ \E face \in Faces : \E l \in Locs :
           /\ searched[face][l].solved
           /\ Len(searched[face][l].diameter) = 3

-----------------------------------------------------------------------------
(* C2                                                                      *)

\* the record of test_L24_B548
L24_B548 ==
    /\ input.width = 700
    /\ input.depth = 1550
    /\ input.span = 5890
    /\ input.req_top_flex_reinf = Triple(14712, 6140, 3638)
    /\ ~any(input.flex_overstressed)
    /\ ~any(input.shear_overstressed)

\* C2: for width 700, depth 1550, span 5890, no flags and top demand
\* [14712, 6140, 3638], after calculate_flexural_design the top-left station is
\* unsolved with provided 0 and the top-middle station holds 32 + 20 providing
\* 6710 mm^2.
C2_TopLeftUnsolved ==
    (L24_B548 /\ run = 1 /\ AfterFlexure) =>
        /\ ~top_flex_rebar["left"].solved
        /\ top_flex_rebar["left"].provided_reinf = 0
        /\ top_flex_rebar["middle"].diameter = <<32, 20>>
        /\ top_flex_rebar["middle"].provided_reinf = MM2(6710)

-----------------------------------------------------------------------------
(* C3                                                                      *)

-----------------------------------------------------------------------------
(* C4                                                                      *)

\* the label of a solved stirrup station gives at least the area A per metre
\* with the given number of legs (A in 1/2 mm^2)
LinksSuffice(label, legs, A) ==
    PiFloor(500 * label.diameter * label.diameter * legs) >= A * label.spacing

\* C4: after calculate_shear_design on a beam that is not overstressed, every
\* stirrup station marked solved provides, with its legs, at least its own
\* total requirement (shear + 2 x torsion) and, with two legs, at least its own
\* torsion requirement; the left or right station rewritten by
\* _copy_highest_provided included.
C4_SolvedStirrupsMeetOwnDemand ==
    (AfterShear /\ run = 1 /\ ~is_overstressed(beam)) =>
        \A l \in Locs :
            shear_links[l].solved =>
                /\ LinksSuffice(shear_links[l].links_text,
                                shear_links[l].links_text.count,
                                total_req_shear[Index(l)])
                /\ LinksSuffice(shear_links[l].links_text, 2,
                                beam.req_torsion_reinf[Index(l)])

-----------------------------------------------------------------------------
(* C5                                                                      *)

\* the search of the run in progress met the layer cap on a record that
\* entered it without any flag
LayerCapOnCleanRecord ==
    /\ AfterSearch
    /\ ~any(pre_split.flex_overstressed)
    /\ ~any(pre_split.shear_overstressed)
    /\ LayerCapHit(searched.top, searched.bot)

-----------------------------------------------------------------------------
(* C6                                                                      *)

SidefacePositions ==
    {"get_required_reinforcement", "get_sideface_clear_space",
     "get_sideface_rebar"}

\* the labels of an overstressed record, once the stages have written them
OverstressedLabels ==
    /\ (AfterSearch /\ any(input.flex_overstressed)) =>
           \A face \in Faces : \A l \in Locs :
               /\ Station(face, l).rebar_text = Overstressed
               /\ ~Station(face, l).solved
               /\ Station(face, l).provided_reinf = 0
    /\ (AfterShear /\ is_overstressed(beam)) =>
           \A l \in Locs : shear_links[l].links_text = LinksOverstressed
    /\ (pc = "done" /\ is_overstressed(input)) =>
           /\ sideface_rebar = SidefaceInit
           /\ sideface_clearspace = 0
           /\ required_torsion_reinforcement = [l \in Locs |-> 0]

\* a step of an overstressed record: the flags stay set, the side-face methods
\* write nothing, and no "Overstressed" station becomes a solved result
OverstressedStep ==
    /\ any(beam.flex_overstressed) => any(beam'.flex_overstressed)
    /\ any(beam.shear_overstressed) => any(beam'.shear_overstressed)
    /\ (is_overstressed(beam) /\ pc \in SidefacePositions) =>
           UNCHANGED sideface_vars
    /\ \A l \in Locs :
           /\ top_flex_rebar[l].rebar_text = Overstressed =>
                  \/ top_flex_rebar'[l].rebar_text = Overstressed
                        /\ top_flex_rebar'[l].solved = top_flex_rebar[l].solved
                  \/ top_flex_rebar'[l] = FlexStationInit
           /\ bot_flex_rebar[l].rebar_text = Overstressed =>
                  \/ bot_flex_rebar'[l].rebar_text = Overstressed
                        /\ bot_flex_rebar'[l].solved = bot_flex_rebar[l].solved
                  \/ bot_flex_rebar'[l] = FlexStationInit
           /\ shear_links[l].links_text = LinksOverstressed =>
                  \/ shear_links'[l].links_text = LinksOverstressed
                        /\ shear_links'[l].solved = shear_links[l].solved
                  \/ shear_links'[l] = LinkStationInit

\* C6: with an input flexure-overstress flag all six flexural stations are
\* labelled "Overstressed", unsolved, provided 0; with any flexure- or
\* shear-overstress flag the three stirrup stations are labelled "Overstressed"
\* and the side-face stage writes nothing; no step turns any(flex_overstressed)
\* or any(shear_overstressed) from true to false, and no step turns an
\* "Overstressed" station into a solved one.
C6_OverstressIsTerminal == []OverstressedLabels /\ [][OverstressedStep]_vars

\* the end of a run on a deep record flagged for flexure only
C6_FlaggedRunDone ==
    /\ pc = "done"
    /\ any(input.flex_overstressed)
    /\ ~any(input.shear_overstressed)
    /\ input.depth > DeepBeam
    /\ \A l \in Locs : top_flex_rebar[l].rebar_text = Overstressed
    /\ \A l \in Locs : shear_links[l].links_text = LinksOverstressed
    /\ sideface_rebar = SidefaceInit

-----------------------------------------------------------------------------
(* C7                                                                      *)

\* a search of the run in progress was exhausted: a flexural station at the
\* layer cap, or a stirrup station that nothing in the catalogue satisfies
SearchExhausted ==
    \/ AfterSearch /\ ~is_overstressed(pre_split)
          /\ LayerCapHit(searched.top, searched.bot)
    \/ AfterShear /\ \E l \in Locs : stirrups[l].links_text = CannotSatisfy

\* C7: whenever a local search is exhausted at a flexural or a stirrup station,
\* the beam is overstressed from then on and the later stages search nothing:
\* after an unsolved stirrup station the side-face stage computes no clear
\* space and no configuration.
C7_ExhaustedSearchOverstresses ==
    (run = 1 /\ SearchExhausted) =>
        /\ is_overstressed(beam)
        /\ pc = "done" =>
               /\ sideface_clearspace = 0
               /\ sideface_rebar = SidefaceInit

-----------------------------------------------------------------------------
(* C8                                                                      *)

\* C8: a second run of the three calculate_* methods on the same record gives
\* every station and the side face the label, provided area, utilization,
\* diameters and solved flag of the first run, layer-cap records included.
C8_SecondRunSameResults ==
    (pc = "done" /\ run = 2) => Results = first

-----------------------------------------------------------------------------
(* C9                                                                      *)

\* u is round(100 * req / prov, 1) in tenths of a percent
IsRatio(u, req, prov) ==
    /\ 2 * (1000 * req - u * prov) <= prov
    /\ 2 * (u * prov - 1000 * req) <= prov

\* after is before with its solved stations made continuous
Continuous(before, after, requirements) ==
    LET solved == {l \in Locs : before[l].solved}
    IN  /\ \A l \in Locs \ solved : after[l] = before[l]
        /\ solved # {} =>
               \E m \in solved :
                   /\ \A k \in solved :
                          before[m].provided_reinf >= before[k].provided_reinf
                   /\ \A l \in solved :
                          /\ after[l].solved
                          /\ after[l].rebar_text = before[m].rebar_text
                          /\ after[l].diameter = before[m].diameter
                          /\ after[l].provided_reinf = before[m].provided_reinf
                          /\ IsRatio(after[l].utilization,
                                     requirements[Index(l)],
                                     before[m].provided_reinf)

\* C9: right after assess_feasibility, for span <= 6000 the solved stations of
\* each face all carry the label, diameters and provided area of a solved
\* station with the greatest provided area before the merge, each with the
\* utilization of its own requirement over that area, and the unsolved stations
\* are as they were; for span > 6000 no station has changed.
C9_ContinuityMerge ==
    pc = "get_residual_rebar" =>
        IF beam.span <= 6000
        THEN /\ Continuous(searched.top, top_flex_rebar, beam.req_top_flex_reinf)
             /\ Continuous(searched.bot, bot_flex_rebar, beam.req_bot_flex_reinf)
        ELSE /\ top_flex_rebar = searched.top
             /\ bot_flex_rebar = searched.bot

\* a merge that raised a solved station next to an unsolved one
C9_MergeRaisedStation ==
    /\ pc = "get_residual_rebar"
    /\ beam.span <= 6000
    /\ \E l, m \in Locs :
           /\ searched.top[l].solved
           /\ top_flex_rebar[l].provided_reinf > searched.top[l].provided_reinf
           /\ top_flex_rebar[l].utilization < searched.top[l].utilization
           /\ ~searched.top[m].solved

-----------------------------------------------------------------------------
(* C10                                                                     *)

\* C10: right after flex_torsion_splitting on a record without a
\* flexure-overstress flag and of depth <= 700, each station's top and bottom
\* demands have grown by half its torsion demand and the torsion array is
\* [0, 0, 0], so that top' + bottom' = top + bottom + torsion; torsion 1343
\* with top [365, 173, 195] gives top [1036.5, 844.5, 866.5].
C10_TorsionSplit ==
    (pc = "get_flex_rebar" /\ ~any(pre_split.flex_overstressed)
        /\ pre_split.depth <= 700) =>
        /\ \A i \in 1..3 :
               /\ 2 * beam.req_top_flex_reinf[i] =
                      2 * pre_split.req_top_flex_reinf[i]
                          + pre_split.req_torsion_flex_reinf[i]
               /\ 2 * beam.req_bot_flex_reinf[i] =
                      2 * pre_split.req_bot_flex_reinf[i]
                          + pre_split.req_torsion_flex_reinf[i]
               /\ beam.req_top_flex_reinf[i] + beam.req_bot_flex_reinf[i] =
                      pre_split.req_top_flex_reinf[i]
                          + pre_split.req_bot_flex_reinf[i]
                          + pre_split.req_torsion_flex_reinf[i]
        /\ beam.req_torsion_flex_reinf = <<0, 0, 0>>
        /\ (pre_split.req_torsion_flex_reinf = Triple(1343, 1343, 1343)
                /\ pre_split.req_top_flex_reinf = Triple(365, 173, 195)) =>
               beam.req_top_flex_reinf = <<2073, 1689, 1733>>

\* the record of the example right after its split
C10_ExampleSplit ==
    /\ pc = "get_flex_rebar"
    /\ run = 1
    /\ ~any(pre_split.flex_overstressed)
    /\ pre_split.depth = 600
    /\ pre_split.req_torsion_flex_reinf = Triple(1343, 1343, 1343)
    /\ pre_split.req_top_flex_reinf = Triple(365, 173, 195)
    /\ beam.req_top_flex_reinf = <<2073, 1689, 1733>>
    /\ beam.req_torsion_flex_reinf = <<0, 0, 0>>

-----------------------------------------------------------------------------
(* C11                                                                     *)

\* C11: right after flex_torsion_splitting on a record of depth > 700 or with
\* a flexure-overstress flag, the top, bottom and torsion-longitudinal demands
\* are exactly as they were, and so is the rest of the record.
C11_SplitIsNoOp ==
    (pc = "get_flex_rebar"
        /\ (pre_split.depth > 700 \/ any(pre_split.flex_overstressed))) =>
        /\ beam.req_top_flex_reinf = pre_split.req_top_flex_reinf
        /\ beam.req_bot_flex_reinf = pre_split.req_bot_flex_reinf
        /\ beam.req_torsion_flex_reinf = pre_split.req_torsion_flex_reinf
        /\ beam = pre_split

\* a deep record without flags that keeps its torsion demand past the split
C11_DeepBeamKeepsTorsion ==
    /\ pc = "get_flex_rebar"
    /\ run = 1
    /\ pre_split.depth > 700
    /\ ~any(pre_split.flex_overstressed)
    /\ pre_split.req_torsion_flex_reinf = Triple(2500, 2500, 2500)
    /\ beam.req_torsion_flex_reinf = Triple(2500, 2500, 2500)
    /\ beam.req_top_flex_reinf = input.req_top_flex_reinf

-----------------------------------------------------------------------------
(* C12                                                                     *)

\* the smallest bar diameter in any layer of any of the six stations
SmallestBarDiameter ==
    LET all == UNION {{top_flex_rebar[l].diameter[i] :
                          i \in 1..Len(top_flex_rebar[l].diameter)}
                      \cup {bot_flex_rebar[l].diameter[i] :
                               i \in 1..Len(bot_flex_rebar[l].diameter)} :
                      l \in Locs}
    IN  CHOOSE d \in all : \A e \in all : d <= e

\* the caps have just been computed
CapsComputed ==
    /\ pc = "get_shear_links"
    /\ SpacingComputed(beam, top_flex_rebar, bot_flex_rebar)

\* C12: when get_min_shear_spacing computes the caps, the longitudinal
\* candidate is 8 x the smallest bar diameter in any layer of any of the six
\* solved stations, so no leg spacing exceeds 8 x that smallest diameter.
C12_LegCapWithinSmallestBar ==
    CapsComputed =>
        /\ Min(get_min_diameter(top_flex_rebar), get_min_diameter(bot_flex_rebar))
               = SmallestBarDiameter
        /\ \A i \in 1..Len(shear_spacing) :
               shear_spacing[i] <= 8 * SmallestBarDiameter

-----------------------------------------------------------------------------
(* C13                                                                     *)

\* the spacing ladder
Ladder == {250, 200, 150, 125, 100}

\* the allowed spacings under a raw cap v, in descending order: the ladder
\* values up to v, or v alone below the ladder
AllowedSpacings(v) ==
    DescList(IF v < 100 THEN {v} ELSE {s \in Ladder : s <= v})

\* the longitudinal diameter the caps use is the smallest bar diameter
SmallestBarFound ==
    Min(get_min_diameter(top_flex_rebar), get_min_diameter(bot_flex_rebar))
        = SmallestBarDiameter

-----------------------------------------------------------------------------
(* C14                                                                     *)

\* the band of the ladder that contains v
Band(v) ==
    IF 200 <= v /\ v < 250 THEN 200
    ELSE IF 150 <= v /\ v < 200 THEN 150
    ELSE IF 125 <= v /\ v < 150 THEN 125
    ELSE IF 100 <= v /\ v < 125 THEN 100
    ELSE v

\* list is what the ladder allows under the raw cap v
Snapped(list, v) ==
    /\ \A i \in 1..Len(list) - 1 : list[i] > list[i + 1]
    /\ \A i \in 1..Len(list) : list[i] <= v
    /\ Len(list) >= 1
    /\ list[1] = Band(v)
    /\ v < 100 => list = <<v>>
    /\ v >= 100 =>
           {list[i] : i \in 1..Len(list)} = {s \in Ladder : s <= Band(v)}

\* C14: after get_min_shear_spacing each allowed-spacing list is strictly
\* descending without duplicates, every element is at most the raw cap v, and
\* it holds the ladder values up to the band value of v (200 for [200,250),
\* 150 for [150,200), 125 for [125,150), 100 for [100,125)); a raw cap below 100
\* is kept as the only spacing.
C14_LadderSnapping ==
    CapsComputed =>
        /\ Snapped(shear_spacing,
                   min_shear_spacing(beam, top_flex_rebar, bot_flex_rebar))
        /\ Snapped(shear_center_spacing, min_shear_center_spacing(beam))

\* a raw leg cap below the ladder kept alone, beside a centre cap of 160
\* snapped to 150
C14_RawKeptBelowLadder ==
    /\ CapsComputed
    /\ min_shear_spacing(beam, top_flex_rebar, bot_flex_rebar) = 80
    /\ shear_spacing = <<80>>
    /\ min_shear_center_spacing(beam) = 160
    /\ Head(shear_center_spacing) = 150
    /\ Len(shear_center_spacing) = 3

-----------------------------------------------------------------------------
(* C15                                                                     *)

\* the elements of a list
Elements(list) == {list[i] : i \in 1..Len(list)}

\* the candidate legs for a record, a bar-line count and twice the maximum
\* transverse spacing: required legs = (width - 80) / spacing
Candidates(b, count, spacing2) ==
    LET few == b.width - 80 < spacing2
    IN  IF few /\ count = 2 THEN {2}
        ELSE IF few /\ count = 3 THEN {2, 3}
        ELSE {2, 3, 4}

\* get_shear_links_count acts on a record that has no shear flag and a
\* depth to divide by
CountsLegs ==
    /\ pc = "get_shear_links_count"
    /\ ~any(beam.shear_overstressed)
    /\ beam.depth > 0

-----------------------------------------------------------------------------
(* C16                                                                     *)

\* get_shear_links has just run its searches
StirrupsSearched == pc = "get_required_reinforcement" /\ ~is_overstressed(beam)

\* the allowed spacings of a station
StationSpacings(l) ==
    IF l = "middle" THEN Elements(shear_center_spacing)
    ELSE Elements(shear_spacing)

\* the combinations that meet the total requirement of station l with their
\* legs and its torsion requirement with two legs
FeasibleLinks(l) ==
    {c \in [diameter : {12, 16}, count : Elements(shear_links_count),
            spacing : StationSpacings(l)] :
        /\ LinksSuffice(c, c.count, total_req_shear[Index(l)])
        /\ LinksSuffice(c, 2, beam.req_torsion_reinf[Index(l)])}

\* area(d) x legs x 1000 / s of c is at most that of e
NoMoreLinks(c, e) ==
    c.diameter * c.diameter * c.count * e.spacing
        <= e.diameter * e.diameter * e.count * c.spacing

\* C16: for each station of a beam that is not overstressed the independent
\* result is a combination of diameter in {12, 16}, candidate legs and allowed
\* spacing (leg list for left and right, centre list for middle) that meets the
\* total requirement and, with two legs, the torsion requirement, and none that
\* does provides less; when none does the result is unsolved with the label
\* "Cannot satisfy requirement. Please reassess", provided 0, diameter 0 and
\* spacing 0.
C16_StirrupSearch ==
    StirrupsSearched =>
        \A l \in Locs :
            LET result == stirrups[l]
            IN  IF FeasibleLinks(l) = {}
                THEN /\ ~result.solved
                     /\ result.links_text.msg
                            = "Cannot satisfy requirement. Please reassess"
                     /\ result.provided_reinf = 0
                     /\ result.diameter = 0
                     /\ result.spacing = 0
                ELSE /\ result.solved
                     /\ \E c \in FeasibleLinks(l) :
                            /\ result.links_text.msg = ""
                            /\ result.links_text.count = c.count
                            /\ result.links_text.diameter = c.diameter
                            /\ result.links_text.spacing = c.spacing
                            /\ result.diameter = c.diameter
                            /\ result.spacing = c.spacing
                            /\ result.provided_reinf
                                   = MM2((PiFloor(500 * c.diameter * c.diameter
                                                      * c.count) + c.spacing)
                                             \div (2 * c.spacing))
                            /\ \A e \in FeasibleLinks(l) : NoMoreLinks(c, e)

\* a beam with one station that no combination satisfies and one station with
\* several feasible combinations of different areas
C16_SolvedAndUnsolved ==
    /\ StirrupsSearched
    /\ \E l \in Locs : FeasibleLinks(l) = {} /\ ~stirrups[l].solved
    /\ \E l \in Locs :
           /\ stirrups[l].solved
           /\ \E c, e \in FeasibleLinks(l) : ~NoMoreLinks(c, e)

-----------------------------------------------------------------------------
(* C17                                                                     *)

\* station carries the label, diameter, spacing and provided area of result
CarriesLinks(station, result) ==
    /\ station.links_text = result.links_text
    /\ station.diameter = result.diameter
    /\ station.spacing = result.spacing
    /\ station.provided_reinf = result.provided_reinf

\* C17: after get_shear_links on a beam that is not overstressed, left and
\* right carry the same label, diameter, spacing and provided area, those of
\* the independent result of left or right that provides the larger area.
C17_SidesShareLargest ==
    StirrupsSearched =>
        /\ CarriesLinks(shear_links["left"], shear_links["right"])
        /\ \E side \in {"left", "right"} :
               /\ stirrups[side].provided_reinf >= stirrups["left"].provided_reinf
               /\ stirrups[side].provided_reinf >= stirrups["right"].provided_reinf
               /\ CarriesLinks(shear_links["left"], stirrups[side])
               /\ CarriesLinks(shear_links["right"], stirrups[side])

\* the right search provides more than the left one, both solved with
\* different labels, and the left station ends with the right result
C17_RightCopiedToLeft ==
    /\ StirrupsSearched
    /\ stirrups["left"].solved
    /\ stirrups["left"].provided_reinf < stirrups["right"].provided_reinf
    /\ stirrups["left"].links_text # stirrups["right"].links_text
    /\ shear_links["left"].links_text = stirrups["right"].links_text
    /\ shear_links["right"].links_text = stirrups["right"].links_text

-----------------------------------------------------------------------------
(* C18                                                                     *)

\* round(100 x requirement / provided, 1) for the links a station ends with
OwnUtilization(l) ==
    LinksUtilization(total_req_shear[Index(l)],
        [diameter |-> shear_links[l].diameter,
         count |-> shear_links[l].links_text.count,
         spacing |-> shear_links[l].spacing])

\* C18: after calculate_shear_design the utilization of each solved stirrup
\* station is its own total requirement over the provided area it ends with,
\* times 100 to one decimal; left and right sharing 1810 mm2 over 1689 and
\* 1629 report 93.3 and 90.0.
C18_UtilizationOfOwnRequirement ==
    StirrupsSearched =>
        /\ \A l \in Locs :
               shear_links[l].solved =>
                   shear_links[l].utilization = OwnUtilization(l)
        /\ (input = RoofB46 /\ run = 1) =>
               /\ total_req_shear = <<MM2(1689), MM2(1691), MM2(1629)>>
               /\ shear_links["left"].provided_reinf = MM2(1810)
               /\ shear_links["right"].provided_reinf = MM2(1810)
               /\ shear_links["left"].utilization = 933
               /\ shear_links["right"].utilization = 900

-----------------------------------------------------------------------------
(* C19                                                                     *)

\* the record is deeper than 700 and carries no flexure or shear flag
StageActive ==
    /\ beam.depth > 700
    /\ \A i \in 1..Len(beam.flex_overstressed) : ~beam.flex_overstressed[i]
    /\ \A i \in 1..Len(beam.shear_overstressed) : ~beam.shear_overstressed[i]

\* the side-face results as Sideface.__init__ leaves them
SidefaceUntouched ==
    /\ \A l \in Locs : required_torsion_reinforcement[l] = 0
    /\ sideface_clearspace = 0
    /\ sideface_rebar.rebar_text.msg = "-"
    /\ sideface_rebar.provided_reinf = 0
    /\ sideface_rebar.diameter = 0
    /\ sideface_rebar.spacing = 0
    /\ ~sideface_rebar.solved

\* a step of calculate_sideface_design outside the active case changes nothing
InactiveStep ==
    (pc \in SidefacePositions /\ ~StageActive) =>
        UNCHANGED <<required_torsion_reinforcement, sideface_clearspace,
                    sideface_rebar>>

\* the side-face results of an inactive record are untouched during and after
\* calculate_sideface_design
InactiveUntouched ==
    ((pc \in SidefacePositions \/ pc = "done") /\ ~StageActive)
        => SidefaceUntouched

\* C19: the side-face stage acts only on a record deeper than 700 without any
\* flexure or shear flag; otherwise calculate_sideface_design changes nothing,
\* and the required areas stay 0, the clear space 0 and the result "-" with
\* provided 0, diameter 0, spacing 0, unsolved.
C19_InactiveSidefaceUnchanged == []InactiveUntouched /\ [][InactiveStep]_vars

\* the end of the first run on a shallow record without flags that has a
\* torsion demand and solved stirrups
C19_ShallowRunDone ==
    /\ pc = "done"
    /\ run = 1
    /\ beam.depth <= 700
    /\ ~any(beam.flex_overstressed)
    /\ ~any(beam.shear_overstressed)
    /\ \E i \in 1..3 : input.req_torsion_flex_reinf[i] > 0
    /\ \A l \in Locs : shear_links[l].solved
    /\ SidefaceUntouched

-----------------------------------------------------------------------------
(* C20                                                                     *)

\* get_required_reinforcement has just acted on an active record
RequiredComputed == pc = "get_sideface_clear_space" /\ StageActive

-----------------------------------------------------------------------------
(* C21                                                                     *)

\* the greatest of a set of numbers
Greatest(S) == CHOOSE x \in S : \A y \in S : y <= x

\* the sum of the layer diameters of a station
RECURSIVE LayerSum(_)
LayerSum(diameters) ==
    IF diameters = <<>> THEN 0
    ELSE Head(diameters) + LayerSum(Tail(diameters))

\* get_sideface_clear_space has just acted on an active record
ClearSpaceComputed == pc = "get_sideface_rebar" /\ StageActive

\* C21: on an active record the clear space is the effective depth less twice
\* the largest stirrup diameter of the three stations, less the largest sum of
\* a top station's layer diameters, less the largest sum of a bottom station's
\* layer diameters; depth 800 with stirrups of 12 and one layer of 16 on each
\* face gives 584.
C21_ClearSpace ==
    ClearSpaceComputed =>
        /\ sideface_clearspace =
               (4 * beam.depth) \div 5
                   - 2 * Greatest({shear_links[l].diameter : l \in Locs})
                   - Greatest({LayerSum(top_flex_rebar[l].diameter) : l \in Locs})
                   - Greatest({LayerSum(bot_flex_rebar[l].diameter) : l \in Locs})
        /\ (/\ beam.depth = 800
            /\ \A l \in Locs : shear_links[l].diameter = 12
            /\ \A l \in Locs : top_flex_rebar[l].diameter = <<16>>
            /\ \A l \in Locs : bot_flex_rebar[l].diameter = <<16>>) =>
               sideface_clearspace = 584

\* the record of test_roof_B46_sideface with its clear space of 584
C21_RoofClearSpace ==
    /\ ClearSpaceComputed
    /\ input = RoofB46
    /\ \A l \in Locs : shear_links[l].diameter = 12
    /\ \A l \in Locs : top_flex_rebar[l].diameter = <<16>>
    /\ sideface_clearspace = 584

-----------------------------------------------------------------------------
(* C22                                                                     *)

\* get_sideface_rebar has just acted on an active record
SidefaceSearched == pc = "done" /\ StageActive

\* the greatest required side-face area of the three stations
Governing == Greatest({required_torsion_reinforcement[l] : l \in Locs})

\* area(d) x 2 x (clearspace / s) is at least A
SidefaceSuffices(c, A) ==
    PiFloor(c.diameter * c.diameter * sideface_clearspace) >= A * c.spacing

\* the combinations of the side-face catalogue that cover the governing
\* requirement
FeasibleSideface ==
    {c \in [diameter : {16, 20, 25}, spacing : {250, 200, 150}] :
        SidefaceSuffices(c, Governing)}

\* area(d) x 2 x (clearspace / s) of c is at most that of e
NoMoreSideface(c, e) ==
    c.diameter * c.diameter * sideface_clearspace * e.spacing
        <= e.diameter * e.diameter * sideface_clearspace * c.spacing

\* C22: on an active record the side-face result is a combination of diameter
\* in {16, 20, 25} and spacing in {250, 200, 150} whose area over the clear
\* space covers the greatest of the three required areas, hence each of them,
\* and none that does provides less; when none does the result is unsolved with
\* provided 0.
C22_SidefaceSearch ==
    SidefaceSearched =>
        IF FeasibleSideface = {}
        THEN /\ ~sideface_rebar.solved
             /\ sideface_rebar.provided_reinf = 0
        ELSE /\ sideface_rebar.solved
             /\ \E c \in FeasibleSideface :
                    /\ sideface_rebar.diameter = c.diameter
                    /\ sideface_rebar.spacing = c.spacing
                    /\ \A e \in FeasibleSideface : NoMoreSideface(c, e)
                    /\ \A l \in Locs :
                           SidefaceSuffices(c, required_torsion_reinforcement[l])
                    /\ sideface_rebar.provided_reinf =
                           MM2((PiFloor(c.diameter * c.diameter
                                            * sideface_clearspace) + c.spacing)
                                   \div (2 * c.spacing))

\* the record of test_roof_B46_sideface: T25@250 providing 2293 over the
\* governing 1866, where other combinations cover it with more
C22_RoofSideface ==
    /\ SidefaceSearched
    /\ input = RoofB46
    /\ Governing = MM2(1866)
    /\ sideface_rebar.diameter = 25
    /\ sideface_rebar.spacing = 250
    /\ sideface_rebar.provided_reinf = MM2(2293)
    /\ \E e \in FeasibleSideface :
           ~NoMoreSideface(e, [diameter |-> 25, spacing |-> 250])

-----------------------------------------------------------------------------
(* C23                                                                     *)

\* C23: called with a clear space <= 0, Sideface._find_rebar_configuration
\* returns, for every requirement, a result that is unsolved or has provided
\* area 0, never a solved one with a negative provided area.
C23_DegenerateGeometry ==
    (pc = "returned" /\ sideface_clearspace <= 0) =>
        /\ ~sideface_rebar.solved \/ sideface_rebar.provided_reinf = 0
        /\ ~(sideface_rebar.solved /\ sideface_rebar.provided_reinf < 0)

-----------------------------------------------------------------------------
(* C24                                                                     *)

\* the record is deeper than 700 and carries no flexure flag
ResidualApplies ==
    /\ beam.depth > 700
    /\ \A i \in 1..Len(beam.flex_overstressed) : ~beam.flex_overstressed[i]

\* provided less required of a station, or 0 for an unsolved one
Surplus(station, required) ==
    IF station.solved THEN station.provided_reinf - required ELSE 0

\* the residual right after get_residual_rebar
ResidualComputed ==
    pc = "get_shear_links_count" =>
        IF ResidualApplies
        THEN \A i \in 1..3 :
                 residual_rebar[locations[i]] =
                     Surplus(top_flex_rebar[locations[i]],
                             beam.req_top_flex_reinf[i])
                         + Surplus(bot_flex_rebar[locations[i]],
                                   beam.req_bot_flex_reinf[i])
        ELSE \A l \in Locs : residual_rebar[l] = 0

\* get_residual_rebar outside its case leaves the residual as it is
ResidualKept ==
    (pc = "get_residual_rebar" /\ ~ResidualApplies) => UNCHANGED residual_rebar

\* C24: get_residual_rebar changes residual_rebar only on a record deeper than
\* 700 without flexure flag, and then each station's residual is the top
\* provided less the top required (0 if unsolved) plus the same for the bottom,
\* on the provided areas as the continuity merge left them; otherwise the
\* residual stays 0 at every station.
C24_Residual == []ResidualComputed /\ [][ResidualKept]_vars

\* a deep record whose continuity merge raised a top station before the
\* residual was taken
C24_ResidualAfterMerge ==
    /\ pc = "get_shear_links_count"
    /\ ResidualApplies
    /\ \E i \in 1..3 :
           /\ top_flex_rebar[locations[i]].provided_reinf
                  > searched.top[locations[i]].provided_reinf
           /\ searched.top[locations[i]].solved
           /\ residual_rebar[locations[i]]
                  > Surplus(searched.top[locations[i]], beam.req_top_flex_reinf[i])
                        + Surplus(bot_flex_rebar[locations[i]],
                                  beam.req_bot_flex_reinf[i])

-----------------------------------------------------------------------------
(* C25                                                                     *)

\* C25: during a design run only flex_torsion_splitting changes the Beam
\* record, and flex_overstressed and shear_overstressed stay the two-element
\* pairs of the input in every state.
C25_OnlySplitMutates ==
    [][/\ pc # "flex_torsion_splitting" => beam' = beam
       /\ Len(beam'.flex_overstressed) = 2
       /\ Len(beam'.shear_overstressed) = 2
       /\ beam'.flex_overstressed = input.flex_overstressed
       /\ beam'.shear_overstressed = input.shear_overstressed]_vars

-----------------------------------------------------------------------------
(* C26                                                                     *)

\* C26: for every input record, the default depth 0 included, the three
\* calculate_ methods run to completion and no step raises.
C26_NoErrorIsFatal == pc # "raised"

-----------------------------------------------------------------------------
(* C27                                                                     *)

\* C27: after get_long_count the bar-line count is width // 100 less one when
\* width // 100 exceeds 2 and 2 otherwise, hence at least 2 for every width;
\* width 400 gives 3 and width 700 gives 6.
C27_BarLineCount ==
    pc = "flex_torsion_splitting" =>
        /\ flex_rebar_count >= 2
        /\ beam.width < 300 => flex_rebar_count = 2
        /\ beam.width >= 300 =>
               /\ 100 * (flex_rebar_count + 1) <= beam.width
               /\ beam.width < 100 * (flex_rebar_count + 2)
        /\ beam.width = 400 => flex_rebar_count = 3
        /\ beam.width = 700 => flex_rebar_count = 6

\* a record of width 700 counted with six bar lines
C27_SixBarLines ==
    /\ pc = "flex_torsion_splitting"
    /\ run = 1
    /\ beam.width = 700
    /\ flex_rebar_count = 6

-----------------------------------------------------------------------------
(* C28                                                                     *)

\* the one-layer and two-layer sums of d^2 that provide at least A on n lines
FirstPassFeasible(n, A) ==
    {a \in LayerAreas[1] \cup LayerAreas[2] : Suffices(a, n, A)}

\* result is what the staged search returns for A on n lines
StagedChoice(result, n, A) ==
    /\ FirstPassFeasible(n, A) # {} =>
           /\ result.solved
           /\ Len(result.diameter) <= 2
           /\ ChosenArea(result) = Least(FirstPassFeasible(n, A))
    /\ (result.solved /\ Len(result.diameter) = 3) =>
           /\ FirstPassFeasible(n, A) = {}
           /\ ChosenArea(result) = Least(LayerFeasible(3, n, A))
    /\ (result.solved /\ Len(result.diameter) = 4) =>
           /\ FirstPassFeasible(n, A) = {}
           /\ LayerFeasible(3, n, A) = {}
           /\ ChosenArea(result) = Least(LayerFeasible(4, n, A))
    /\ (n = 3 /\ A = MM2(1979)) =>
           /\ result.diameter = <<25, 16>>
           /\ result.provided_reinf = MM2(2076)
    /\ (n = 3 /\ A = MM2(703)) =>
           /\ result.diameter = <<20>>
           /\ result.provided_reinf = MM2(942)

\* C28: _find_rebar_configuration takes the one-layer and two-layer
\* combinations together in its first pass and returns the one of least excess
\* among them, also when a single layer meets the requirement (three bar lines:
\* 1979 gives 25 + 16 providing 2076, 703 gives one layer of 20 providing 942);
\* three layers are returned only when no one- or two-layer combination
\* qualifies, four layers only when no three-layer one does either.
C28_StagedSearch ==
    (pc = "assess_feasibility" /\ NoFlexFlagOnEntry) =>
        \A face \in Faces : \A l \in Locs :
            StagedChoice(searched[face][l], flex_rebar_count, Required(face, l))

\* three bar lines with 1979 at one station and 703 at another: two layers
\* where one layer of 32 would do, and a single layer of 20
C28_TwoLayersBesideOne ==
    /\ pc = "assess_feasibility"
    /\ NoFlexFlagOnEntry
    /\ flex_rebar_count = 3
    /\ Required("top", "left") = MM2(1979)
    /\ searched["top"]["left"].diameter = <<25, 16>>
    /\ Suffices(32 * 32, 3, MM2(1979))
    /\ Required("top", "middle") = MM2(703)
    /\ searched["top"]["middle"].diameter = <<20>>

-----------------------------------------------------------------------------
(* C29                                                                     *)

\* the record carries no true entry in flex_overstressed
NoFlexFlag ==
    \A i \in 1..Len(beam.flex_overstressed) : ~beam.flex_overstressed[i]

\* the record carries no true entry in shear_overstressed
NoShearFlag ==
    \A i \in 1..Len(beam.shear_overstressed) : ~beam.shear_overstressed[i]

\* all six flexural stations are solved
AllSixSolved ==
    \A l \in Locs : top_flex_rebar[l].solved /\ bot_flex_rebar[l].solved

\* get_shear_links is about to run its searches
SearchAhead == pc = "get_shear_links" /\ NoFlexFlag /\ NoShearFlag

\* C29: after calculate_flexural_design the record has no true flexure flag
\* exactly when all six flexural stations are solved; so whenever
\* get_shear_links searches, get_min_shear_spacing has computed both caps from
\* solved flexural diameters and the lists are the capped ones.
C29_SearchOnCappedLists ==
    /\ AfterFlexure => (NoFlexFlag <=> AllSixSolved)
    /\ SearchAhead =>
           /\ AllSixSolved
           /\ Snapped(shear_spacing,
                      SeqMin(<<(4 * beam.depth) \div 20,
                               8 * Min(get_min_diameter(top_flex_rebar),
                                       get_min_diameter(bot_flex_rebar)),
                               24 * 12, 250>>))
           /\ Snapped(shear_center_spacing,
                      Min((4 * beam.depth) \div 10, 250))

\* a search ahead on a leg list cut below the default ladder
C29_SearchAfterCaps ==
    /\ SearchAhead
    /\ run = 1
    /\ AllSixSolved
    /\ shear_spacing # <<250, 200, 150, 125, 100>>
    /\ shear_links_count # <<>>

-----------------------------------------------------------------------------
(* C30                                                                     *)

\* the clear space of an active record has been computed
ClearSpaceKnown == pc \in {"get_sideface_rebar", "done"} /\ StageActive

\* the bars the searches can choose: stirrups up to 16, at most four flexural
\* layers of at most 32 on a face
BarsWithinCatalogue ==
    \A l \in Locs :
        /\ shear_links[l].diameter <= 16
        /\ \A face \in Faces :
               /\ Len(Station(face, l).diameter) <= 4
               /\ \A j \in 1..Len(Station(face, l).diameter) :
                      Station(face, l).diameter[j] <= 32

\* C30: whenever the side-face stage is active in a design run, the chosen
\* bars are stirrups of at most 16 and at most four flexural layers of at most
\* 32 on a face, the clear space is strictly positive, and a solved side-face
\* result provides more than 0.
C30_ClearSpacePositive ==
    /\ ClearSpaceKnown =>
           /\ BarsWithinCatalogue
           /\ sideface_clearspace > 0
    /\ (pc = "done" /\ StageActive /\ sideface_rebar.solved) =>
           sideface_rebar.provided_reinf > 0

\* a record of depth 705 with four layers of 32 on both faces and stirrups of
\* 16: the least clear space the bars leave, 276
C30_LeastClearSpace ==
    /\ pc = "done"
    /\ StageActive
    /\ beam.depth = 705
    /\ \E l \in Locs : shear_links[l].diameter = 16
    /\ \E l \in Locs : top_flex_rebar[l].diameter = <<32, 32, 32, 32>>
    /\ \E l \in Locs : bot_flex_rebar[l].diameter = <<32, 32, 32, 32>>
    /\ sideface_clearspace = 276
    /\ sideface_rebar.solved

=============================================================================
